---- MODULE Spec2Model ----
(***************************************************************************)
(* Model of the Compile Context VS Code extension                          *)
(* (aldo-g/compile-context-ext): the Selection Set (checkedFiles), the     *)
(* tree provider that lists directories and derives the tri-state symbol,  *)
(* the toggle / selectAll / deselectAll command handlers with their await  *)
(* points, and the compile command with the document serializer.           *)
(*                                                                         *)
(* Text is modelled character by character: a string is a sequence of      *)
(* one-character strings.  The four box-drawing characters of the tree     *)
(* section are outside the ASCII range of the module's string syntax and   *)
(* are written as the named characters BoxVR, BoxH, BoxV, BoxUR.           *)
(***************************************************************************)
EXTENDS Integers, Sequences, FiniteSets, Bags, TLC

VARIABLES
    platform,      \* the platform the extension host runs on
    provider,      \* which FileTreeProvider source is loaded
    fs,            \* the filesystem under the workspace root
    unreadable,    \* directories whose readdir fails
    config,        \* workspace configuration 'compileContext'
    checkedFiles,  \* the Selection Set, a JS Set: a duplicate-free sequence in insertion order
    globalState,   \* the persisted value of key 'checkedFiles'
    view,          \* the FileNode objects the tree view currently holds
    walking,       \* the handlers suspended at await getAllChildFiles / getAllFiles, as a bag
    microtasks,    \* the handlers suspended at await refreshTreeView(), in the order they resume
    compiled       \* the outcome of the last compile command

vars == <<platform, provider, fs, unreadable, config, checkedFiles, globalState, view, walking, microtasks, compiled>>

-----------------------------------------------------------------------------
(* Strings *)

BoxVR == "U+251C"
BoxH == "U+2500"
BoxV == "U+2502"
BoxUR == "U+2514"

Range(s) == {s[i] : i \in 1..Len(s)}

\* String.prototype.startsWith
StartsWith(s, p) == Len(p) <= Len(s) /\ SubSeq(s, 1, Len(p)) = p

\* Array.prototype.includes / Set.prototype.has on a sequence
Includes(s, x) == \E i \in 1..Len(s) : s[i] = x

\* positions of the separator character in a string
SepPositions(s, sep) == {i \in 1..Len(s) : s[i] = sep}

\* String.prototype.split(sep) for a one-character separator
RECURSIVE Split(_, _)
Split(s, sep) ==
    IF SepPositions(s, sep) = {} THEN <<s>>
    ELSE LET i == CHOOSE k \in SepPositions(s, sep) : \A m \in SepPositions(s, sep) : k <= m
         IN <<SubSeq(s, 1, i - 1)>> \o Split(SubSeq(s, i + 1, Len(s)), sep)

\* Array.prototype.join(sep)
RECURSIVE Join(_, _)
Join(parts, sep) ==
    IF Len(parts) = 0 THEN <<>>
    ELSE IF Len(parts) = 1 THEN parts[1]
    ELSE parts[1] \o sep \o Join(Tail(parts), sep)

\* the concatenation of a sequence of strings
RECURSIVE Concat(_)
Concat(ss) == IF Len(ss) = 0 THEN <<>> ELSE ss[1] \o Concat(Tail(ss))

\* the separator of the paths of this model: paths are written with "/" on either
\* platform, as path.relative(...).replace(/\\/g, '/') leaves them
pathSep == "/"

\* path.sep of the platform
sep == IF platform = "win32" THEN "\\" ELSE "/"

\* path.join(dir, name) for a directory path and an entry name
pathJoin(dir, name) == dir \o <<pathSep>> \o name

\* path.basename
basename(p) == LET parts == Split(p, pathSep) IN parts[Len(parts)]

\* path.dirname
dirname(p) ==
    LET last == CHOOSE i \in 1..Len(p) : p[i] = pathSep /\ \A j \in (i + 1)..Len(p) : p[j] # pathSep
    IN SubSeq(p, 1, last - 1)

\* path.relative(from, to) followed by .replace(/\\/g, '/'), for a path at or below `from`
relative(from, to) ==
    IF to = from THEN <<>>
    ELSE IF StartsWith(to, from \o <<pathSep>>) THEN SubSeq(to, Len(from) + 2, Len(to))
    ELSE <<".", ".", pathSep>> \o to

UpperChars == <<"A", "B", "C", "D", "E", "F", "G", "H", "I", "J", "K", "L", "M",
                "N", "O", "P", "Q", "R", "S", "T", "U", "V", "W", "X", "Y", "Z">>
LowerChars == <<"a", "b", "c", "d", "e", "f", "g", "h", "i", "j", "k", "l", "m",
                "n", "o", "p", "q", "r", "s", "t", "u", "v", "w", "x", "y", "z">>

\* String.prototype.toLowerCase, per character
LowerOf == [i \in 1..Len(UpperChars) |-> <<UpperChars[i], LowerChars[i]>>]

IsUpper(c) == \E i \in 1..Len(UpperChars) : UpperChars[i] = c

LowerChar(c) == IF IsUpper(c) THEN LowerOf[CHOOSE i \in 1..Len(LowerOf) : LowerOf[i][1] = c][2] ELSE c

\* String.prototype.toLowerCase
toLowerCase(s) == [i \in 1..Len(s) |-> LowerChar(s[i])]

\* primary collation order of the characters that occur in names (punctuation, digits, letters)
CollationOrder == <<" ", "_", "-", ".", "/", "0", "1", "2", "3", "4", "5", "6", "7", "8", "9",
                    "a", "b", "c", "d", "e", "f", "g", "h", "i", "j", "k", "l", "m",
                    "n", "o", "p", "q", "r", "s", "t", "u", "v", "w", "x", "y", "z">>

\* the primary collation rank of every character, upper case ranked as its lower case
CollationRank ==
    [c \in Range(CollationOrder) \cup Range(UpperChars) |->
        CHOOSE i \in 1..Len(CollationOrder) : CollationOrder[i] = LowerChar(c)]

\* a rank that puts every upper-case letter before every lower-case letter
CharRankUpperFirst(c) ==
    IF c \in DOMAIN CollationRank
    THEN (IF IsUpper(c) THEN CollationRank[c] ELSE Len(CollationOrder) + CollationRank[c])
    ELSE 0

CharRank(c) == IF c \in DOMAIN CollationRank THEN CollationRank[c] ELSE 0

\* lexicographic comparison of two sequences of numbers: -1, 0 or 1
RECURSIVE LexCompare(_, _)
LexCompare(a, b) ==
    IF Len(a) = 0 /\ Len(b) = 0 THEN 0
    ELSE IF Len(a) = 0 THEN -1
    ELSE IF Len(b) = 0 THEN 1
    ELSE IF a[1] < b[1] THEN -1
    ELSE IF a[1] > b[1] THEN 1
    ELSE LexCompare(Tail(a), Tail(b))

\* String.prototype.localeCompare: letters compare without case first; equal letters
\* are then ordered lower case before upper case at the first difference
localeCompare(a, b) ==
    LET pa == [i \in 1..Len(a) |-> CharRank(a[i])]
        pb == [i \in 1..Len(b) |-> CharRank(b[i])]
        primary == LexCompare(pa, pb)
        ta == [i \in 1..Len(a) |-> IF IsUpper(a[i]) THEN 1 ELSE 0]
        tb == [i \in 1..Len(b) |-> IF IsUpper(b[i]) THEN 1 ELSE 0]
    IN IF primary # 0 THEN primary ELSE LexCompare(ta, tb)

\* Array.prototype.sort(cmp), a stable sort: the element at index i goes behind every
\* element that compares smaller, and behind every equal element that came before it
SortBy(s, cmp(_, _)) ==
    LET n == Len(s)
        before(j, i) == LET c == cmp(s[j], s[i]) IN c < 0 \/ (c = 0 /\ j < i)
        pos == [i \in 1..n |-> 1 + Cardinality({j \in 1..n : j # i /\ before(j, i)})]
    IN [k \in 1..n |-> s[CHOOSE i \in 1..n : pos[i] = k]]

-----------------------------------------------------------------------------
(* The filesystem and the configuration *)

\* vscode.workspace.workspaceFolders[0].uri.fsPath
workspaceRoot == <<"/", "w">>

Dirent(name, kind) == [name |-> name, kind |-> kind]

Abs(rel) == pathJoin(workspaceRoot, rel)

\* src/ holds a.ts and lib/ (which holds c.ts); e/ is an empty directory
TreeWorld ==
    [entries |->
        (workspaceRoot :> <<Dirent(<<"e">>, "dir"), Dirent(<<"s", "r", "c">>, "dir")>>)
        @@ (Abs(<<"e">>) :> <<>>)
        @@ (Abs(<<"s", "r", "c">>) :> <<Dirent(<<"a", ".", "t", "s">>, "file"), Dirent(<<"l", "i", "b">>, "dir")>>)
        @@ (Abs(<<"s", "r", "c", "/", "l", "i", "b">>) :> <<Dirent(<<"c", ".", "t", "s">>, "file")>>),
     content |->
        (Abs(<<"s", "r", "c", "/", "a", ".", "t", "s">>) :> <<"X">>)
        @@ (Abs(<<"s", "r", "c", "/", "l", "i", "b", "/", "c", ".", "t", "s">>) :> <<"Y">>)]

\* README.md (content Y) and src/a.ts (content X)
DocWorld ==
    [entries |->
        (workspaceRoot :> <<Dirent(<<"R", "E", "A", "D", "M", "E", ".", "m", "d">>, "file"), Dirent(<<"s", "r", "c">>, "dir")>>)
        @@ (Abs(<<"s", "r", "c">>) :> <<Dirent(<<"a", ".", "t", "s">>, "file")>>),
     content |->
        (Abs(<<"R", "E", "A", "D", "M", "E", ".", "m", "d">>) :> <<"Y">>)
        @@ (Abs(<<"s", "r", "c", "/", "a", ".", "t", "s">>) :> <<"X">>)]

\* build/x and build2/x
BuildWorld ==
    [entries |->
        (workspaceRoot :> <<Dirent(<<"b", "u", "i", "l", "d">>, "dir"), Dirent(<<"b", "u", "i", "l", "d", "2">>, "dir")>>)
        @@ (Abs(<<"b", "u", "i", "l", "d">>) :> <<Dirent(<<"x">>, "file")>>)
        @@ (Abs(<<"b", "u", "i", "l", "d", "2">>) :> <<Dirent(<<"x">>, "file")>>),
     content |->
        (Abs(<<"b", "u", "i", "l", "d", "/", "x">>) :> <<"X">>)
        @@ (Abs(<<"b", "u", "i", "l", "d", "2", "/", "x">>) :> <<"Y">>)]

\* the root lists b.ts, Zeta/, a.ts, alpha/ and B.md in this order; both directories are empty
ListWorld ==
    [entries |->
        (workspaceRoot :> <<Dirent(<<"b", ".", "t", "s">>, "file"), Dirent(<<"Z", "e", "t", "a">>, "dir"),
                            Dirent(<<"a", ".", "t", "s">>, "file"), Dirent(<<"a", "l", "p", "h", "a">>, "dir"),
                            Dirent(<<"B", ".", "m", "d">>, "file")>>)
        @@ (Abs(<<"Z", "e", "t", "a">>) :> <<>>)
        @@ (Abs(<<"a", "l", "p", "h", "a">>) :> <<>>),
     content |->
        (Abs(<<"b", ".", "t", "s">>) :> <<"1">>)
        @@ (Abs(<<"a", ".", "t", "s">>) :> <<"2">>)
        @@ (Abs(<<"B", ".", "m", "d">>) :> <<"3">>)]

\* src/ holds a.ts, LICENSE and the hidden directory .h/, which holds x
HideWorld ==
    [entries |->
        (workspaceRoot :> <<Dirent(<<"s", "r", "c">>, "dir")>>)
        @@ (Abs(<<"s", "r", "c">>) :> <<Dirent(<<"a", ".", "t", "s">>, "file"),
                                         Dirent(<<"L", "I", "C", "E", "N", "S", "E">>, "file"),
                                         Dirent(<<".", "h">>, "dir")>>)
        @@ (Abs(<<"s", "r", "c", "/", ".", "h">>) :> <<Dirent(<<"x">>, "file")>>),
     content |->
        (Abs(<<"s", "r", "c", "/", "a", ".", "t", "s">>) :> <<"1">>)
        @@ (Abs(<<"s", "r", "c", "/", "L", "I", "C", "E", "N", "S", "E">>) :> <<"2">>)
        @@ (Abs(<<"s", "r", "c", "/", ".", "h", "/", "x">>) :> <<"3">>)]

\* the defaults of the contributed configuration
DefaultConfig ==
    [excludeFiles |-> << <<"L", "I", "C", "E", "N", "C", "E">>,
                         <<"p", "a", "c", "k", "a", "g", "e", "-", "l", "o", "c", "k", ".", "j", "s", "o", "n">>,
                         <<"L", "I", "C", "E", "N", "S", "E">> >>,
     excludePaths |-> << <<".", "g", "i", "t">>,
                         <<"_", "_", "p", "y", "c", "a", "c", "h", "e", "_", "_">>,
                         <<"b", "u", "i", "l", "d">>,
                         <<".", "c", "o", "m", "p", "i", "l", "e", "-", "c", "o", "n", "t", "e", "x", "t">> >>,
     outputFile |-> <<".", "c", "o", "m", "p", "i", "l", "e", "-", "c", "o", "n", "t", "e", "x", "t", "/",
                      "f", "i", "l", "e", "_", "c", "o", "n", "t", "e", "x", "t", ".", "t", "x", "t">>,
     excludeHidden |-> TRUE]

\* a user configuration: excludePaths = ["build"], the output file in the workspace root
BuildConfig ==
    [excludeFiles |-> <<>>,
     excludePaths |-> << <<"b", "u", "i", "l", "d">> >>,
     outputFile |-> <<"f", "i", "l", "e", "_", "c", "o", "n", "t", "e", "x", "t", ".", "t", "x", "t">>,
     excludeHidden |-> TRUE]

\* the default exclusions with the output file in the workspace root
FilterConfig == [DefaultConfig EXCEPT !.outputFile = BuildConfig.outputFile]

IsDirPath(p) == p \in DOMAIN fs.entries
IsFilePath(p) == p \in DOMAIN fs.content

\* fs.statSync(p) succeeds
StatOk(p) == IsDirPath(p) \/ IsFilePath(p)

\* a readdir that succeeds on every directory
ReadableAny(p) == IsDirPath(p)

\* fs.readdir / fs.readdirSync(p) succeeds
Readable(p) == IsDirPath(p) /\ p \notin unreadable

\* fs.readFileSync(p, 'utf-8') succeeds
ReadOk(p) == IsFilePath(p) /\ p \notin unreadable

\* Set.prototype.add and Set.prototype.delete on the insertion-ordered set
SetAdd(s, x) == IF Includes(s, x) THEN s ELSE Append(s, x)
SetDelete(s, x) == SelectSeq(s, LAMBDA y : y # x)

RECURSIVE SetAddAll(_, _)
SetAddAll(s, xs) == IF Len(xs) = 0 THEN s ELSE SetAddAll(SetAdd(s, xs[1]), Tail(xs))

RECURSIVE SetDeleteAll(_, _)
SetDeleteAll(s, xs) == IF Len(xs) = 0 THEN s ELSE SetDeleteAll(SetDelete(s, xs[1]), Tail(xs))

-----------------------------------------------------------------------------
(* Recursive collection of the files under a directory *)

NoFiles == [files |-> <<>>, errs |-> {}]

\* the loop over the dirents of a directory that was read, from index i on;
\* errs are the directories whose read failed and was reported with showErrorMessage
RECURSIVE WalkFrom(_, _)
WalkFrom(dirPath, i) ==
    LET list == fs.entries[dirPath] IN
    IF i > Len(list) THEN NoFiles
    ELSE LET dirent == list[i]
             filePath == pathJoin(dirPath, dirent.name)
             here == IF dirent.kind = "dir"
                     THEN (IF Readable(filePath) THEN WalkFrom(filePath, 1)
                           ELSE [files |-> <<>>, errs |-> {filePath}])
                     ELSE IF dirent.kind = "file" THEN [files |-> <<filePath>>, errs |-> {}]
                     ELSE NoFiles
             rest == WalkFrom(dirPath, i + 1)
         IN [files |-> here.files \o rest.files, errs |-> here.errs \cup rest.errs]

\* a walk that also collects the directory it is given
getAllChildFilesAndDirectory(dirPath) ==
    IF Readable(dirPath)
    THEN [files |-> <<dirPath>> \o WalkFrom(dirPath, 1).files, errs |-> WalkFrom(dirPath, 1).errs]
    ELSE [files |-> <<>>, errs |-> {dirPath}]

\* a walk that leaves out the files with a hidden segment below the directory
getAllChildFilesVisible(dirPath) ==
    IF Readable(dirPath)
    THEN [files |-> SelectSeq(WalkFrom(dirPath, 1).files,
                              LAMBDA f : \A i \in 1..(Len(f) - 1) : ~(f[i] = pathSep /\ f[i + 1] = ".")),
          errs |-> WalkFrom(dirPath, 1).errs]
    ELSE [files |-> <<>>, errs |-> {dirPath}]

\* async getAllChildFiles(dirPath) of the extension
getAllChildFiles(dirPath) ==
    IF Readable(dirPath) THEN WalkFrom(dirPath, 1) ELSE [files |-> <<>>, errs |-> {dirPath}]

\* a walk of the workspace that leaves out the files excludeFiles names
getAllFilesNotExcluded(dirPath) ==
    [files |-> SelectSeq(getAllChildFiles(dirPath).files, LAMBDA f : ~Includes(config.excludeFiles, basename(f))),
     errs |-> getAllChildFiles(dirPath).errs]

\* getAllFiles(dirPath)
getAllFiles(dirPath) == getAllChildFiles(dirPath)

\* getAllChildFilesSync(dirPath) of the tree provider
getAllChildFilesSync(dirPath) ==
    IF Readable(dirPath) THEN WalkFrom(dirPath, 1).files ELSE <<>>

-----------------------------------------------------------------------------
(* FileTreeProvider *)

SymChecked == "U+25CF"
SymPartial == "U+25D1"
SymUnchecked == "U+25CB"

FileNode(label, collapsibleState, fsPath, checked) ==
    [label |-> label, collapsibleState |-> collapsibleState, fsPath |-> fsPath, checked |-> checked]

Every(s, P(_)) == \A i \in 1..Len(s) : P(s[i])
Some(s, P(_)) == \E i \in 1..Len(s) : P(s[i])

Has(filePath) == Includes(checkedFiles, filePath)

\* getSelectionSymbol without the test for an empty list of descendant files
getSelectionSymbolNoLength(element) ==
    IF element.collapsibleState # "None"
    THEN LET allChildFilePaths == getAllChildFilesSync(element.fsPath)
         IN IF Every(allChildFilePaths, Has) THEN SymChecked
            ELSE IF Some(allChildFilePaths, Has) THEN SymPartial
            ELSE SymUnchecked
    ELSE IF element.checked THEN SymChecked ELSE SymUnchecked

\* the Selection Set, as a set of paths
Selected == Range(checkedFiles)

\* FileTreeProvider.getSelectionSymbol (the same in both provider sources)
getSelectionSymbol(element) ==
    IF element.collapsibleState # "None"
    THEN LET allChildFilePaths == getAllChildFilesSync(element.fsPath)
             allSelected == Len(allChildFilePaths) > 0 /\ Every(allChildFilePaths, Has)
             someSelected == Some(allChildFilePaths, Has)
         IN IF allSelected THEN SymChecked
            ELSE IF someSelected THEN SymPartial
            ELSE SymUnchecked
    ELSE IF element.checked THEN SymChecked ELSE SymUnchecked

EntryNames(dirPath) == [i \in 1..Len(fs.entries[dirPath]) |-> fs.entries[dirPath][i].name]

\* the checked flag getFileNodes of src/treeDataProvider.ts gives a directory
DirChecked(fullPath) ==
    LET allChildFilePaths == getAllChildFilesSync(fullPath)
    IN Len(allChildFilePaths) > 0 /\ Every(allChildFilePaths, Has)

\* FileTreeProvider.getFileNodes of src/treeDataProvider.ts
getFileNodes(dirPath) ==
    IF ~Readable(dirPath) THEN <<>>
    ELSE LET entries == EntryNames(dirPath)
             kept == SelectSeq(entries, LAMBDA entry :
                        /\ ~(config.excludeHidden /\ StartsWith(entry, <<".">>))
                        /\ StatOk(pathJoin(dirPath, entry)))
             directories == SelectSeq(kept, LAMBDA entry : IsDirPath(pathJoin(dirPath, entry)))
             files == SelectSeq(kept, LAMBDA entry : ~IsDirPath(pathJoin(dirPath, entry)))
             sortedEntries == SortBy(directories, localeCompare) \o SortBy(files, localeCompare)
         IN [i \in 1..Len(sortedEntries) |->
                LET file == sortedEntries[i]
                    fullPath == pathJoin(dirPath, file)
                    isDirectory == IsDirPath(fullPath)
                IN FileNode(file \o (IF isDirectory THEN <<sep>> ELSE <<>>),
                            IF isDirectory THEN "Collapsed" ELSE "None",
                            fullPath,
                            IF isDirectory THEN DirChecked(fullPath) ELSE Has(fullPath))]

\* the messages getFileNodes shows with vscode.window.showErrorMessage while it lists
\* a directory: one when readdirSync throws; the provider of src/treeDataProvider.ts
\* also shows one for each entry whose statSync throws
getFileNodesMessages(dirPath) ==
    IF ~Readable(dirPath) THEN {"error:Unable to read directory"}
    ELSE IF provider = "treeDataProvider"
            /\ \E i \in 1..Len(EntryNames(dirPath)) :
                   /\ ~(config.excludeHidden /\ StartsWith(EntryNames(dirPath)[i], <<".">>))
                   /\ ~StatOk(pathJoin(dirPath, EntryNames(dirPath)[i]))
    THEN {"error:Unable to access file"}
    ELSE {}

\* the checked flag getFileNodes of the rewritten provider gives a directory
DirCheckedCompact(fp) ==
    LET child == getAllChildFilesSync(fp) IN Every(child, Has)

\* FileTreeProvider.getFileNodes of the rewritten provider, which also applies excludePaths
getFileNodesCompact(dirPath) ==
    IF ~Readable(dirPath) THEN <<>>
    ELSE LET entries == EntryNames(dirPath)
             kept == SelectSeq(entries, LAMBDA e :
                        /\ ~(config.excludeHidden /\ StartsWith(e, <<".">>))
                        /\ ~Some(config.excludePaths,
                                 LAMBDA pth : StartsWith(relative(workspaceRoot, pathJoin(dirPath, e)), pth))
                        /\ StatOk(pathJoin(dirPath, e)))
             dirs == SelectSeq(kept, LAMBDA e : IsDirPath(pathJoin(dirPath, e)))
             files == SelectSeq(kept, LAMBDA e : ~IsDirPath(pathJoin(dirPath, e)))
             sorted == SortBy(dirs, localeCompare) \o SortBy(files, localeCompare)
         IN [i \in 1..Len(sorted) |->
                LET e == sorted[i]
                    fp == pathJoin(dirPath, e)
                    isDir == IsDirPath(fp)
                IN FileNode(e \o (IF isDir THEN <<sep>> ELSE <<>>),
                            IF isDir THEN "Collapsed" ELSE "None",
                            fp,
                            IF isDir THEN DirCheckedCompact(fp) ELSE Has(fp))]

\* the two FileTreeProvider sources of the repository
Providers == {"treeDataProvider", "compact"}

\* FileTreeProvider.getChildren(element) of the loaded provider, for a directory path
ListChildren(dirPath) ==
    IF provider = "compact" THEN getFileNodesCompact(dirPath) ELSE getFileNodes(dirPath)

-----------------------------------------------------------------------------
(* The command handlers of the extension.  A handler runs to its next await.   *)
(* await getAllChildFiles(...) waits for directory reads: the handlers waiting *)
(* there resume in any order, each in a task of its own, so after every        *)
(* continuation queued before it has run.  The awaits inside the walk only     *)
(* read the filesystem, which no command of this specification changes while   *)
(* a walk is pending, so the walk is one step.  await refreshTreeView() awaits *)
(* a promise that is already resolved: the continuations queue up and run in   *)
(* the order in which the handlers reached the await.                          *)

\* how many command handlers may be suspended at an await at once
MaxInFlight == 2

NoNode == FileNode(<<>>, "None", <<>>, FALSE)

Handler(cmd, element, errs) == [cmd |-> cmd, element |-> element, errs |-> errs]

InFlight == BagCardinality(walking) + Len(microtasks)

\* isDirectory(node) of the extension
isDirectory(node) == node.collapsibleState = "Collapsed" \/ node.collapsibleState = "Expanded"

\* the directory branch deciding on "some descendant selected" instead of "every"
ToggleDirectorySome(files) ==
    IF Some(files, Has) THEN SetDeleteAll(checkedFiles, files) ELSE SetAddAll(checkedFiles, files)

\* the directory branch flipping each collected path on its own
ToggleDirectoryFlipEach(files) ==
    LET kept == SelectSeq(checkedFiles, LAMBDA x : ~Includes(files, x))
        added == SelectSeq(files, LAMBDA x : ~Has(x))
    IN kept \o added

\* the directory branch of the toggle handler on the resolved walk: the selection it leaves
ToggleDirectory(files) ==
    LET isChecked == Len(files) > 0 /\ Every(files, Has)
    IN IF isChecked THEN SetDeleteAll(checkedFiles, files) ELSE SetAddAll(checkedFiles, files)

\* a file branch that replaces the selection by the toggled path when it adds
ToggleFileOnly(selection, element) ==
    IF element.checked THEN SetDelete(selection, element.fsPath)
    ELSE <<element.fsPath>>

\* the file branch of the toggle handler, on a selection
ToggleFile(selection, element) ==
    IF element.checked THEN SetDelete(selection, element.fsPath)
    ELSE SetAdd(selection, element.fsPath)

\* compileContext.toggleCheckbox is invoked with a node of the view: a directory
\* suspends at await getAllChildFiles, a file is flipped at once and the handler
\* fires the refresh and suspends at await refreshTreeView()
toggleCheckbox(element) ==
    /\ InFlight < MaxInFlight
    /\ element \in view
    /\ IF isDirectory(element)
       THEN /\ walking' = walking (+) SetToBag({Handler("toggleCheckbox", element, {})})
            /\ UNCHANGED <<checkedFiles, microtasks>>
       ELSE /\ checkedFiles' = ToggleFile(checkedFiles, element)
            /\ microtasks' = Append(microtasks, Handler("toggleCheckbox", element, {}))
            /\ UNCHANGED walking
    /\ UNCHANGED <<platform, provider, fs, unreadable, config, globalState, view, compiled>>

\* the walk of a directory toggle resolves: decide, update every collected path,
\* fire the refresh and suspend at await refreshTreeView()
toggleCheckboxWalked(h) ==
    /\ BagIn(h, walking)
    /\ h.cmd = "toggleCheckbox"
    /\ microtasks = <<>>
    /\ LET walk == getAllChildFiles(h.element.fsPath)
       IN /\ checkedFiles' = ToggleDirectory(walk.files)
          /\ microtasks' = Append(microtasks, Handler("toggleCheckbox", h.element, walk.errs))
    /\ walking' = walking (-) SetToBag({h})
    /\ UNCHANGED <<platform, provider, fs, unreadable, config, globalState, view, compiled>>

\* compileContext.selectAll is invoked and suspends at await getAllFiles
selectAll ==
    /\ InFlight < MaxInFlight
    /\ walking' = walking (+) SetToBag({Handler("selectAll", NoNode, {})})
    /\ UNCHANGED <<platform, provider, fs, unreadable, config, checkedFiles, globalState, view, microtasks, compiled>>

\* the walk of selectAll resolves: add every collected path that is missing, fire the
\* refresh and suspend at await refreshTreeView()
selectAllWalked(h) ==
    /\ BagIn(h, walking)
    /\ h.cmd = "selectAll"
    /\ microtasks = <<>>
    /\ LET walk == getAllFiles(workspaceRoot)
       IN /\ checkedFiles' = SetAddAll(checkedFiles, walk.files)
          /\ microtasks' = Append(microtasks, Handler("selectAll", NoNode, walk.errs))
    /\ walking' = walking (-) SetToBag({h})
    /\ UNCHANGED <<platform, provider, fs, unreadable, config, globalState, view, compiled>>

\* compileContext.deselectAll is invoked: clear the set, fire the refresh and suspend
\* at await refreshTreeView()
deselectAll ==
    /\ InFlight < MaxInFlight
    /\ checkedFiles' = <<>>
    /\ microtasks' = Append(microtasks, Handler("deselectAll", NoNode, {}))
    /\ UNCHANGED <<platform, provider, fs, unreadable, config, globalState, view, walking, compiled>>

\* every handler passing the empty array literal
PersistedValueLiteral(h) == <<>>

\* what a handler passes to context.globalState.update('checkedFiles', ...)
PersistedValue(h) == IF h.cmd = "deselectAll" THEN <<>> ELSE checkedFiles

\* the first queued continuation runs: the handler persists the selection and ends
persist ==
    /\ microtasks # <<>>
    /\ globalState' = PersistedValue(Head(microtasks))
    /\ microtasks' = Tail(microtasks)
    /\ UNCHANGED <<platform, provider, fs, unreadable, config, checkedFiles, view, walking, compiled>>

\* the view asks the provider for the children of the root or of a directory it
\* shows, and holds the fresh nodes in place of the ones it held for that directory
getChildren(dirPath) ==
    /\ dirPath = workspaceRoot \/ \E n \in view : n.fsPath = dirPath /\ n.collapsibleState # "None"
    /\ view' = {n \in view : dirname(n.fsPath) # dirPath} \cup Range(ListChildren(dirPath))
    /\ UNCHANGED <<platform, provider, fs, unreadable, config, checkedFiles, globalState, walking, microtasks, compiled>>

-----------------------------------------------------------------------------
(* The compile command and the serializer *)

\* a catch block of getAllCheckedFiles that drops the path from the set
OnStatFailureDelete(selection, filePath) == SetDelete(selection, filePath)

\* the catch block of getAllCheckedFiles for a path whose stat failed: what it leaves
\* of the set (it logs, or does nothing)
OnStatFailure(selection, filePath) == selection

\* this.checkedFiles after the loop of getAllCheckedFiles
RECURSIVE AfterGetAllCheckedFiles(_, _)
AfterGetAllCheckedFiles(selection, i) ==
    IF i > Len(checkedFiles) THEN selection
    ELSE AfterGetAllCheckedFiles(IF StatOk(checkedFiles[i]) THEN selection
                                 ELSE OnStatFailure(selection, checkedFiles[i]), i + 1)

\* getAllCheckedFiles returning the nodes sorted by path
getAllCheckedFilesSorted ==
    LET present == SortBy(SelectSeq(checkedFiles, StatOk), localeCompare)
    IN [i \in 1..Len(present) |-> FileNode(basename(present[i]), "None", present[i], TRUE)]

\* getAllCheckedFiles without the stat of each path
getAllCheckedFilesNoStat ==
    [i \in 1..Len(checkedFiles) |-> FileNode(basename(checkedFiles[i]), "None", checkedFiles[i], TRUE)]

\* FileTreeProvider.getAllCheckedFiles (the same in both provider sources): one node
\* per member whose stat succeeds, in the set's order
getAllCheckedFiles ==
    LET present == SelectSeq(checkedFiles, StatOk)
    IN [i \in 1..Len(present) |->
            LET filePath == present[i]
                isDir == IsDirPath(filePath)
            IN FileNode(basename(filePath) \o (IF isDir THEN <<sep>> ELSE <<>>),
                        IF isDir THEN "Collapsed" ELSE "None", filePath, TRUE)]

\* isHidden(relativePath) of the extension
isHidden(relativePath) == Some(Split(relativePath, sep), LAMBDA part : StartsWith(part, <<".">>))

\* the predicate of selectedFiles.filter in the compile command
FilterKeeps(file) ==
    LET fileName == basename(file.fsPath)
        relativePath == relative(workspaceRoot, file.fsPath)
    IN /\ ~Includes(config.excludeFiles, fileName)
       /\ ~Some(config.excludePaths, LAMBDA excludePath : StartsWith(relativePath, excludePath))
       /\ ~(config.excludeHidden /\ isHidden(relativePath))

TreeNode(name, isFile, children) == [name |-> name, isFile |-> isFile, children |-> children]

ChildIndex(node, part) ==
    IF \E i \in 1..Len(node.children) : node.children[i].name = part
    THEN CHOOSE i \in 1..Len(node.children) : node.children[i].name = part
    ELSE 0

\* parts.forEach of the tree build: descend along the parts, creating the nodes that are
\* missing; children is the Map of a node, in insertion order
RECURSIVE InsertParts(_, _)
InsertParts(currentNode, parts) ==
    IF Len(parts) = 0 THEN currentNode
    ELSE LET part == parts[1]
             isFile == Len(parts) = 1
             at == ChildIndex(currentNode, part)
             child == IF at = 0 THEN TreeNode(part, isFile, <<>>) ELSE currentNode.children[at]
             grown == InsertParts(child, Tail(parts))
         IN [currentNode EXCEPT !.children = IF at = 0 THEN Append(@, grown) ELSE [@ EXCEPT ![at] = grown]]

\* selectedFiles.forEach of the tree build
RECURSIVE BuildTree(_, _)
BuildTree(treeRoot, selectedFiles) ==
    IF Len(selectedFiles) = 0 THEN treeRoot
    ELSE BuildTree(InsertParts(treeRoot, Split(relative(workspaceRoot, selectedFiles[1].fsPath), "/")),
                   Tail(selectedFiles))

\* a comparator that orders by name alone
CompareChildrenByName(a, b) == localeCompare(toLowerCase(a.name), toLowerCase(b.name))

\* the comparator of children.sort in serializeTree
CompareChildren(a, b) ==
    IF a.isFile = b.isFile THEN localeCompare(toLowerCase(a.name), toLowerCase(b.name))
    ELSE IF a.isFile THEN 1 ELSE -1

\* an indentation that draws the vertical bar under every ancestor
IndentBar(isLast) == <<BoxV, " ", " ", " ">>

Connector(isLast) == IF isLast THEN <<BoxUR, BoxH, BoxH, " ">> ELSE <<BoxVR, BoxH, BoxH, " ">>
Indent(isLast) == IF isLast THEN <<" ", " ", " ", " ">> ELSE <<BoxV, " ", " ", " ">>

\* serializeTree(node, prefix) of compileContext.ts
RECURSIVE serializeTree(_, _)
serializeTree(node, prefix) ==
    LET children == SortBy(node.children, CompareChildren)
        total == Len(children)
        line(index) ==
            LET child == children[index]
                isLast == index = total
            IN prefix \o Connector(isLast) \o child.name \o (IF child.isFile THEN <<>> ELSE <<"/">>) \o <<"\n">>
               \o (IF child.isFile THEN <<>> ELSE serializeTree(child, prefix \o Indent(isLast)))
    IN Concat([index \in 1..total |-> line(index)])

FileTreeHeader == <<"F", "i", "l", "e", " ", "T", "r", "e", "e", ":", "\n">>
FilesHeader == <<"\n", "F", "i", "l", "e", "s", ":", "\n">>
StartOf == <<"\n", "-", "-", "-", " ", "S", "t", "a", "r", "t", " ", "o", "f", " ">>
EndOfStart == <<" ", "-", "-", "-", "\n">>
ErrorReading == <<"E", "r", "r", "o", "r", " ", "r", "e", "a", "d", "i", "n", "g", " ", "f", "i", "l", "e", ":", " ">>

\* error.message of a failed fs.readFileSync, as one token
ReadErrorMessage == <<"ENOENT">>

\* a files section that leaves out a file whose read fails
FileSectionSkipFailed(file) ==
    IF ReadOk(file.fsPath)
    THEN StartOf \o relative(workspaceRoot, file.fsPath) \o EndOfStart \o fs.content[file.fsPath] \o <<"\n">>
    ELSE <<>>

\* what one selected file adds to filesContent
FileSection(file) ==
    LET relativePath == relative(workspaceRoot, file.fsPath)
    IN IF IsDirPath(file.fsPath) THEN <<>>
       ELSE IF ReadOk(file.fsPath)
       THEN StartOf \o relativePath \o EndOfStart \o fs.content[file.fsPath] \o <<"\n">>
       ELSE StartOf \o relativePath \o EndOfStart \o ErrorReading \o ReadErrorMessage \o <<"\n">>

\* fs.writeFileSync(outputPath, ...) succeeds when the directory of the path exists
CanWrite(outputPath) == IsDirPath(dirname(outputPath))

\* compileContext(workspaceRoot, outputFile, selectedFiles, ...) of compileContext.ts:
\* the messages it shows, whether it wrote, and the text it passed to writeFileSync
compileContext(outputFile, selectedFiles) ==
    LET treeRoot == BuildTree(TreeNode(<<>>, FALSE, <<>>), selectedFiles)
        fileTree == FileTreeHeader \o serializeTree(treeRoot, <<>>)
        filesContent == FilesHeader \o Concat([i \in 1..Len(selectedFiles) |-> FileSection(selectedFiles[i])])
        outputPath == pathJoin(workspaceRoot, outputFile)
    IN IF Len(treeRoot.children) = 0
       THEN [messages |-> {"info:serializing", "error:empty tree"}, written |-> FALSE, text |-> <<>>]
       ELSE IF CanWrite(outputPath)
       THEN [messages |-> {"info:serializing", "info:written"}, written |-> TRUE,
             text |-> fileTree \o <<"\n">> \o filesContent]
       ELSE [messages |-> {"info:serializing", "error:write failed"}, written |-> FALSE, text |-> <<>>]

\* fs.writeFileSync creates or replaces the file at outputPath
WriteFile(outputPath, text) ==
    LET dir == dirname(outputPath)
        name == basename(outputPath)
        listed == \E i \in 1..Len(fs.entries[dir]) : fs.entries[dir][i].name = name
    IN [entries |-> IF listed THEN fs.entries
                    ELSE [fs.entries EXCEPT ![dir] = Append(@, Dirent(name, "file"))],
        content |-> (outputPath :> text) @@ fs.content]

\* the compileContext.compileContext command
compileCommand ==
    LET selectedFiles == getAllCheckedFiles
        filteredFiles == SelectSeq(selectedFiles, FilterKeeps)
        paths(files) == [i \in 1..Len(files) |-> files[i].fsPath]
        result == compileContext(config.outputFile, filteredFiles)
    IN /\ IF Len(selectedFiles) = 0
          THEN /\ compiled' = [by |-> "compileContext.compileContext", messages |-> {"warning:no files selected"}, files |-> <<>>,
                               written |-> FALSE, text |-> <<>>]
               /\ UNCHANGED fs
          ELSE IF Len(filteredFiles) = 0
          THEN /\ compiled' = [by |-> "compileContext.compileContext", messages |-> {"warning:no files after exclusions"}, files |-> <<>>,
                               written |-> FALSE, text |-> <<>>]
               /\ UNCHANGED fs
          ELSE /\ compiled' = [by |-> "compileContext.compileContext", messages |-> result.messages \cup {"info:completed"},
                               files |-> paths(filteredFiles),
                               written |-> result.written, text |-> result.text]
               /\ fs' = IF result.written
                        THEN WriteFile(pathJoin(workspaceRoot, config.outputFile), result.text)
                        ELSE fs
       /\ checkedFiles' = AfterGetAllCheckedFiles(checkedFiles, 1)
       /\ UNCHANGED <<platform, provider, unreadable, config, globalState, view, walking, microtasks>>

\* a file of the workspace is deleted on disk by another program
unlink(p) ==
    /\ IsFilePath(p)
    /\ fs' = [entries |-> [d \in DOMAIN fs.entries |->
                              IF d = dirname(p)
                              THEN SelectSeq(fs.entries[d], LAMBDA dirent : dirent.name # basename(p))
                              ELSE fs.entries[d]],
              content |-> [f \in DOMAIN fs.content \ {p} |-> fs.content[f]]]
    /\ UNCHANGED <<platform, provider, unreadable, config, checkedFiles, globalState, view, walking, microtasks, compiled>>

NoCompile == [by |-> "", messages |-> {}, files |-> <<>>, written |-> FALSE, text |-> <<>>]

\* activate(context): the selection is loaded from the persisted value
Activated ==
    /\ checkedFiles = globalState
    /\ view = {}
    /\ walking = EmptyBag
    /\ microtasks = <<>>
    /\ compiled = NoCompile

Commands ==
    \/ \E element \in view : toggleCheckbox(element)
    \/ \E h \in BagToSet(walking) : toggleCheckboxWalked(h)
    \/ selectAll
    \/ \E h \in BagToSet(walking) : selectAllWalked(h)
    \/ deselectAll
    \/ persist
    \/ \E dirPath \in DOMAIN fs.entries : getChildren(dirPath)

-----------------------------------------------------------------------------
(* The commands on a readable workspace, from a fresh installation *)

Init ==
    /\ platform = "posix"
    /\ provider \in Providers
    /\ fs = TreeWorld
    /\ unreadable = {}
    /\ config = DefaultConfig
    /\ globalState = <<>>
    /\ Activated

Next == Commands

Spec == Init /\ [][Next]_vars

-----------------------------------------------------------------------------
(* The commands on a workspace with a directory that cannot be read *)

UnreadableChoices == {{Abs(<<"s", "r", "c", "/", "l", "i", "b">>)}, {Abs(<<"s", "r", "c">>)}}

InitIO ==
    /\ platform = "posix"
    /\ provider \in Providers
    /\ fs = TreeWorld
    /\ unreadable \in UnreadableChoices
    /\ config = DefaultConfig
    /\ globalState = <<>>
    /\ Activated

SpecIO == InitIO /\ [][Next]_vars

-----------------------------------------------------------------------------
(* Listing and compiling a persisted selection *)

\* how many paths the persisted selection holds at activation
MaxSelected == 2

\* the duplicate-free sequences of at most n elements of a set
RECURSIVE Selections(_, _)
Selections(S, n) ==
    IF n = 0 THEN {<<>>}
    ELSE {<<>>} \cup {<<x>> \o rest : x \in S, rest \in Selections(S, n - 1)}

DuplicateFree(s) == \A i, j \in 1..Len(s) : i # j => s[i] # s[j]

\* how many files are deleted on disk while the extension runs
MaxUnlinked == 1

InitCompile ==
    /\ platform = "posix"
    /\ provider \in Providers
    /\ fs \in {DocWorld, BuildWorld, ListWorld}
    /\ unreadable \in {{}} \cup {{f} : f \in DOMAIN fs.content}
    /\ config \in {DefaultConfig, BuildConfig}
    /\ globalState \in {s \in Selections(DOMAIN fs.content, MaxSelected) : DuplicateFree(s)}
    /\ Activated

\* the files of the workspace at activation that are gone
Unlinked == {p \in Range(globalState) : ~IsFilePath(p)}

NextCompile ==
    \/ compileCommand
    \/ \E dirPath \in DOMAIN fs.entries : getChildren(dirPath)
    \/ \E p \in Selected : Cardinality(Unlinked) < MaxUnlinked /\ unlink(p)

SpecCompile == InitCompile /\ [][NextCompile]_vars

-----------------------------------------------------------------------------
(* generateContext, the serializer of the earlier extension sources, and the test  *)
(* that calls it                                                                   *)

InitPy == <<"_", "_", "i", "n", "i", "t", "_", "_", ".", "p", "y">>

\* `${error}` of a failed fs.readFileSync
ErrorString == <<"E", "r", "r", "o", "r", ":", " ">> \o ReadErrorMessage

\* a variant of GenerateFileSection that reads __init__.py like any other file
GenerateFileSectionReadAll(file) ==
    LET relativePath == relative(workspaceRoot, file.fsPath)
    IN IF ReadOk(file.fsPath)
       THEN StartOf \o relativePath \o EndOfStart \o fs.content[file.fsPath] \o <<"\n">>
       ELSE StartOf \o relativePath \o EndOfStart \o ErrorReading \o ErrorString \o <<"\n">>

\* what one selected file adds to filesContent in generateContext (src/generateContext.ts)
GenerateFileSection(file) ==
    LET relativePath == relative(workspaceRoot, file.fsPath)
        baseName == basename(file.fsPath)
    IN IF baseName = InitPy THEN StartOf \o relativePath \o EndOfStart
       ELSE IF ReadOk(file.fsPath)
       THEN StartOf \o relativePath \o EndOfStart \o fs.content[file.fsPath] \o <<"\n">>
       ELSE StartOf \o relativePath \o EndOfStart \o ErrorReading \o ErrorString \o <<"\n">>

\* the write at the end of generateContext: messages shown, whether it wrote, the text
GenerateWrite(outputFile, fileTree, filesContent) ==
    IF CanWrite(pathJoin(workspaceRoot, outputFile))
    THEN [messages |-> {"info:written"}, written |-> TRUE, text |-> fileTree \o <<"\n">> \o filesContent]
    ELSE [messages |-> {"error:write failed"}, written |-> FALSE, text |-> <<>>]

\* generateContext of src/generateContext.ts: one tree line per selected file
generateContext(outputFile, selectedFiles) ==
    LET fileTree == FileTreeHeader \o Concat([i \in 1..Len(selectedFiles) |->
                        <<BoxVR, BoxH, BoxH, " ">> \o relative(workspaceRoot, selectedFiles[i].fsPath) \o <<"\n">>])
        filesContent == FilesHeader \o Concat([i \in 1..Len(selectedFiles) |-> GenerateFileSection(selectedFiles[i])])
    IN GenerateWrite(outputFile, fileTree, filesContent)

\* serializeTree of the tree version of generateContext: the children in insertion order
RECURSIVE serializeTreeUnsorted(_, _)
serializeTreeUnsorted(node, prefix) ==
    LET children == node.children
        total == Len(children)
        line(index) ==
            LET child == children[index]
                isLast == index = total
            IN prefix \o Connector(isLast) \o child.name \o (IF child.isFile THEN <<>> ELSE <<"/">>) \o <<"\n">>
               \o (IF child.isFile THEN <<>> ELSE serializeTreeUnsorted(child, prefix \o Indent(isLast)))
    IN Concat([index \in 1..total |-> line(index)])

\* generateContext of the tree version: a hierarchical tree, directories skipped in the files section
generateContextTree(outputFile, selectedFiles) ==
    LET treeRoot == BuildTree(TreeNode(<<>>, FALSE, <<>>), selectedFiles)
        fileTree == FileTreeHeader \o serializeTreeUnsorted(treeRoot, <<>>)
        filesContent == FilesHeader \o Concat([i \in 1..Len(selectedFiles) |->
                            IF IsDirPath(selectedFiles[i].fsPath) THEN <<>>
                            ELSE GenerateFileSection(selectedFiles[i])])
    IN GenerateWrite(outputFile, fileTree, filesContent)

\* testWorkspace of the test: testFile.js and an empty __init__.py; pkg/__init__.py has content
TestWorld ==
    [entries |->
        (workspaceRoot :> <<Dirent(<<"t", "e", "s", "t", "F", "i", "l", "e", ".", "j", "s">>, "file"), Dirent(InitPy, "file"), Dirent(<<"p", "k", "g">>, "dir")>>)
        @@ (Abs(<<"p", "k", "g">>) :> <<Dirent(InitPy, "file")>>),
     content |->
        (Abs(<<"t", "e", "s", "t", "F", "i", "l", "e", ".", "j", "s">>) :> <<"c", "o", "n", "s", "o", "l", "e", ".", "l", "o", "g", "(", "\"", "H", "e", "l", "l", "o", " ", "W", "o", "r", "l", "d", "\"", ")", ";">>)
        @@ (Abs(InitPy) :> <<>>)
        @@ (Abs(<<"p", "k", "g", "/">> \o InitPy) :> <<"Z">>)]

\* the arguments of the call in the test: outputFile 'test_context.txt', [], [], false
TestConfig ==
    [excludeFiles |-> <<>>,
     excludePaths |-> <<>>,
     outputFile |-> <<"t", "e", "s", "t", "_", "c", "o", "n", "t", "e", "x", "t", ".", "t", "x", "t">>,
     excludeHidden |-> FALSE]

\* the serializers that a caller can apply to a list of FileNodes
Serializers == {"generateContext", "generateContextTree", "compileContext"}

\* how many FileNodes a caller passes
MaxList == 3

TestFiles == DOMAIN TestWorld.content

\* a FileNode as the test builds it
TestNode(filePath) == FileNode(basename(filePath), "None", filePath, TRUE)

\* the test applies a serializer to a list of selected files, once in its fresh workspace
callSerializer(by, paths) ==
    LET selectedFiles == [i \in 1..Len(paths) |-> TestNode(paths[i])]
        result == IF by = "generateContext" THEN generateContext(config.outputFile, selectedFiles)
                  ELSE IF by = "generateContextTree" THEN generateContextTree(config.outputFile, selectedFiles)
                  ELSE compileContext(config.outputFile, selectedFiles)
    IN /\ compiled = NoCompile
       /\ compiled' = [by |-> by, messages |-> result.messages, files |-> paths,
                       written |-> result.written, text |-> result.text]
       /\ fs' = IF result.written
                THEN WriteFile(pathJoin(workspaceRoot, config.outputFile), result.text)
                ELSE fs
       /\ UNCHANGED <<platform, provider, unreadable, config, checkedFiles, globalState, view, walking, microtasks>>

InitGenerate ==
    /\ platform = "posix"
    /\ provider \in Providers
    /\ fs = TestWorld
    /\ unreadable \in {{}, {Abs(<<"t", "e", "s", "t", "F", "i", "l", "e", ".", "j", "s">>)}}
    /\ config = TestConfig
    /\ globalState = <<>>
    /\ Activated

NextGenerate ==
    \E by \in Serializers, paths \in Selections(TestFiles, MaxList) : callSerializer(by, paths)

SpecGenerate == InitGenerate /\ [][NextGenerate]_vars

-----------------------------------------------------------------------------
(* compileContext applied to the lists the compile command can hand it: the nodes *)
(* of getAllCheckedFiles, which holds a directory kind node for a selected path    *)
(* that is a directory by now                                                      *)

\* a/ holds b/ (with c.ts), d.ts and D.ts; e.ts lies in the root
NestWorld ==
    [entries |->
        (workspaceRoot :> <<Dirent(<<"a">>, "dir"), Dirent(<<"e", ".", "t", "s">>, "file")>>)
        @@ (Abs(<<"a">>) :> <<Dirent(<<"b">>, "dir"), Dirent(<<"d", ".", "t", "s">>, "file"),
                               Dirent(<<"D", ".", "t", "s">>, "file")>>)
        @@ (Abs(<<"a", "/", "b">>) :> <<Dirent(<<"c", ".", "t", "s">>, "file")>>),
     content |->
        (Abs(<<"a", "/", "b", "/", "c", ".", "t", "s">>) :> <<"1">>)
        @@ (Abs(<<"a", "/", "d", ".", "t", "s">>) :> <<"2">>)
        @@ (Abs(<<"a", "/", "D", ".", "t", "s">>) :> <<"3">>)
        @@ (Abs(<<"e", ".", "t", "s">>) :> <<"4">>)]

\* the paths a Selection Set can hold in this workspace: its files, and the
\* directories, which were files when they were selected
NestPaths == DOMAIN NestWorld.content \cup {Abs(<<"a">>), Abs(<<"a", "/", "b">>)}

InitSerialize ==
    /\ platform = "posix"
    /\ provider \in Providers
    /\ fs = NestWorld
    /\ unreadable = {}
    /\ config = TestConfig
    /\ globalState = <<>>
    /\ Activated

NextSerialize ==
    \E paths \in {q \in Selections(NestPaths, MaxList) : DuplicateFree(q)} :
        callSerializer("compileContext", paths)

SpecSerialize == InitSerialize /\ [][NextSerialize]_vars

-----------------------------------------------------------------------------
(* Listing and compiling with exclusions, on either platform *)

Platforms == {"posix", "win32"}

InitFilter ==
    /\ platform \in Platforms
    /\ provider \in Providers
    /\ fs \in {HideWorld, BuildWorld}
    /\ unreadable = {}
    /\ config \in {FilterConfig, [FilterConfig EXCEPT !.excludeHidden = FALSE]}
    /\ globalState \in {s \in Selections(DOMAIN fs.content, MaxSelected) : DuplicateFree(s)}
    /\ Activated

NextFilter ==
    \/ compileCommand
    \/ \E dirPath \in DOMAIN fs.entries : getChildren(dirPath)

SpecFilter == InitFilter /\ [][NextFilter]_vars

-----------------------------------------------------------------------------
(* The commands on a workspace with hidden and excluded files *)

InitExclude ==
    /\ platform = "posix"
    /\ provider \in Providers
    /\ fs = HideWorld
    /\ unreadable = {}
    /\ config = DefaultConfig
    /\ globalState = <<>>
    /\ Activated

SpecExclude == InitExclude /\ [][Next]_vars

-----------------------------------------------------------------------------
(* Properties *)

\* the files of the workspace that lie under directory D, at any depth
DescendantFiles(D) == {f \in DOMAIN fs.content : StartsWith(f, D \o <<pathSep>>)}

DirectoryNodes == {n \in view : isDirectory(n)}
FileNodes == {n \in view : ~isDirectory(n)}

\* C1: for every directory node the view holds and every Selection Set the commands
\* produce, the symbol shown is Checked exactly when the directory has at least one
\* descendant file and all of them are selected, Partial exactly when some but not
\* all are selected, and Unchecked otherwise (none selected, or no descendant file)
C1_TriState ==
    \A n \in DirectoryNodes :
        LET desc == DescendantFiles(n.fsPath)
            sym == getSelectionSymbol(n)
        IN /\ (sym = SymChecked) <=> (desc # {} /\ desc \subseteq Selected)
           /\ (sym = SymPartial) <=> (desc \cap Selected # {} /\ ~(desc \subseteq Selected))
           /\ (sym = SymUnchecked) <=> (desc \cap Selected = {})

\* the view shows a Partial, a Checked and an empty directory at once
C1_Witness ==
    /\ \E n \in DirectoryNodes : getSelectionSymbol(n) = SymPartial
    /\ \E n \in DirectoryNodes : getSelectionSymbol(n) = SymChecked
    /\ \E n \in DirectoryNodes : DescendantFiles(n.fsPath) = {}

\* C2: a directory node that has no descendant files carries the checked flag FALSE
\* and shows the Unchecked symbol, never Checked
C2_EmptyDirectoryUnchecked ==
    \A n \in DirectoryNodes :
        DescendantFiles(n.fsPath) = {} =>
            /\ n.checked = FALSE
            /\ getSelectionSymbol(n) = SymUnchecked

\* C3: the step in which a directory toggle updates the set, for a directory D with
\* at least one descendant file: if D showed Checked before, D shows Unchecked after
\* and no descendant is selected; if D showed Partial or Unchecked before, D shows
\* Checked after and every descendant is selected
C3_DirectoryToggle ==
    [][\A h \in BagToSet(walking) :
          (toggleCheckboxWalked(h) /\ DescendantFiles(h.element.fsPath) # {}) =>
              LET desc == DescendantFiles(h.element.fsPath)
              IN IF getSelectionSymbol(h.element) = SymChecked
                 THEN /\ getSelectionSymbol(h.element)' = SymUnchecked
                      /\ desc \cap Selected' = {}
                 ELSE /\ getSelectionSymbol(h.element)' = SymChecked
                      /\ desc \subseteq Selected']_vars

\* the only handler in flight is a toggle of src/ that has updated the set and not
\* yet persisted it; the persisted value shows that only src/lib/c.ts was selected
\* (src/ was Partial) and the toggle has added src/a.ts
C3_Witness ==
    /\ walking = EmptyBag
    /\ Len(microtasks) = 1
    /\ microtasks[1].cmd = "toggleCheckbox"
    /\ microtasks[1].element.fsPath = Abs(<<"s", "r", "c">>)
    /\ globalState = <<Abs(<<"s", "r", "c", "/", "l", "i", "b", "/", "c", ".", "t", "s">>)>>
    /\ checkedFiles = <<Abs(<<"s", "r", "c", "/", "l", "i", "b", "/", "c", ".", "t", "s">>),
                        Abs(<<"s", "r", "c", "/", "a", ".", "t", "s">>)>>

\* C4: for every file node the view holds and every Selection Set the commands
\* produce, running the file branch of the toggle on that node twice leaves the
\* Selection Set with its original membership
C4_FileToggleInvolution ==
    \A n \in FileNodes :
        LET once == ToggleFile(checkedFiles, n)
            twice == ToggleFile(once, n)
        IN Range(twice) = Selected

\* C5: under every interleaving of the handlers, the step in which a directory
\* toggle updates the set leaves every descendant file of the directory selected or
\* every one unselected, decided on the Selection Set as it is in that step: none
\* stays selected if all were selected, all are selected otherwise; no path outside
\* the directory changes membership
C5_AllOrNothing ==
    [][\A h \in BagToSet(walking) :
          toggleCheckboxWalked(h) =>
              LET desc == DescendantFiles(h.element.fsPath)
              IN /\ IF desc # {} /\ desc \subseteq Selected
                    THEN desc \cap Selected' = {}
                    ELSE desc \subseteq Selected'
                 /\ Selected' \ desc = Selected \ desc]_vars

\* a toggle of src/ has updated the set while another handler is suspended in its
\* walk: the persisted value shows that both files were selected, and none is now
C5_Witness ==
    /\ BagCardinality(walking) = 1
    /\ Len(microtasks) = 1
    /\ microtasks[1].cmd = "toggleCheckbox"
    /\ microtasks[1].element.fsPath = Abs(<<"s", "r", "c">>)
    /\ Len(globalState) = 2
    /\ checkedFiles = <<>>

\* C6: the step in which a directory toggle resumes from a walk that could not read
\* some directory of the subtree changes no membership of the Selection Set, and the
\* failure is reported
C6_FailedWalkNoMutation ==
    [][\A h \in BagToSet(walking) :
          (toggleCheckboxWalked(h) /\ getAllChildFiles(h.element.fsPath).errs # {}) =>
              /\ Selected' = Selected
              /\ microtasks'[Len(microtasks')].errs # {}]_vars

\* C7: whenever no command handler is in flight, the persisted value of the key
\* 'checkedFiles' holds exactly the paths of the in-memory Selection Set
C7_PersistedEqualsSelection ==
    InFlight = 0 => globalState = checkedFiles

\* no handler is in flight after two updates that were persisted: src/lib/c.ts was
\* selected before src/a.ts
C7_Witness ==
    /\ InFlight = 0
    /\ globalState = <<Abs(<<"s", "r", "c", "/", "l", "i", "b", "/", "c", ".", "t", "s">>),
                       Abs(<<"s", "r", "c", "/", "a", ".", "t", "s">>)>>

\* C8: starting from an empty Selection Set, every member of the Selection Set is
\* the path of a file and never the path of a directory
C8_NoDirectoryPath ==
    \A p \in Selected : IsFilePath(p) /\ ~IsDirPath(p)

\* selectAll has added both files of the workspace and has not yet persisted them
C8_Witness ==
    /\ Len(microtasks) > 0
    /\ microtasks[Len(microtasks)].cmd = "selectAll"
    /\ Len(checkedFiles) = 2
    /\ globalState = <<>>

BuildPath == <<"b", "u", "i", "l", "d">>
Build2Path == <<"b", "u", "i", "l", "d", "2">>
Build2File == Abs(<<"b", "u", "i", "l", "d", "2", "/", "x">>)
BuildFile == Abs(<<"b", "u", "i", "l", "d", "/", "x">>)

\* C9: with excludePaths = ["build"] and a workspace that holds build/x and
\* build2/x, once the compile command has run: the compile kept build2/x if it was
\* selected and did not keep build/x, and the listing of the root by the provider
\* that applies excludePaths leaves out build and shows build2
C9_SegmentAwareExclusion ==
    (config.excludePaths = <<BuildPath>> /\ IsFilePath(Build2File) /\ compiled # NoCompile) =>
        /\ BuildFile \notin Range(compiled.files)
        /\ Build2File \in Selected => Build2File \in Range(compiled.files)
        /\ provider = "compact" =>
              LET listed == {n.fsPath : n \in Range(ListChildren(workspaceRoot))}
              IN Abs(BuildPath) \notin listed /\ Abs(Build2Path) \in listed

ReadmeFile == Abs(<<"R", "E", "A", "D", "M", "E", ".", "m", "d">>)
SrcAFile == Abs(<<"s", "r", "c", "/", "a", ".", "t", "s">>)

\* the tree section of the expected text of the specification
ExpectedTreeSection ==
    <<"F", "i", "l", "e", " ", "T", "r", "e", "e", ":", "\n", BoxVR, BoxH, BoxH, " ", "R", "E",
      "A", "D", "M", "E", ".", "m", "d", "\n", BoxUR, BoxH, BoxH, " ", "s", "r", "c", "/",
      "\n", " ", " ", " ", " ", BoxUR, BoxH, BoxH, " ", "a", ".", "t", "s", "\n">>

\* the tree section with directories before files
DirectoriesFirstTreeSection ==
    <<"F", "i", "l", "e", " ", "T", "r", "e", "e", ":", "\n", BoxVR, BoxH, BoxH, " ", "s", "r",
      "c", "/", "\n", BoxV, " ", " ", " ", BoxUR, BoxH, BoxH, " ", "a", ".", "t", "s", "\n",
      BoxUR, BoxH, BoxH, " ", "R", "E", "A", "D", "M", "E", ".", "m", "d", "\n">>

FilesLine == <<"F", "i", "l", "e", "s", ":", "\n">>

ReadmeSection ==
    <<"\n", "-", "-", "-", " ", "S", "t", "a", "r", "t", " ", "o", "f", " ", "R", "E", "A",
      "D", "M", "E", ".", "m", "d", " ", "-", "-", "-", "\n", "Y", "\n">>

SrcASection ==
    <<"\n", "-", "-", "-", " ", "S", "t", "a", "r", "t", " ", "o", "f", " ", "s", "r", "c",
      "/", "a", ".", "t", "s", " ", "-", "-", "-", "\n", "X", "\n">>

\* both files of the example read, compiled and written, README.md selected first
ExampleCompiled ==
    /\ compiled.written
    /\ unreadable = {}
    /\ compiled.files = <<ReadmeFile, SrcAFile>>

Contains(text, sub) ==
    \E i \in 1..(Len(text) - Len(sub) + 1) : SubSeq(text, i, i + Len(sub) - 1) = sub

\* the first index at which sub occurs in text, 0 if it does not occur
IndexOf(text, sub) ==
    IF Contains(text, sub)
    THEN CHOOSE i \in 1..(Len(text) - Len(sub) + 1) :
            /\ SubSeq(text, i, i + Len(sub) - 1) = sub
            /\ \A j \in 1..(i - 1) : SubSeq(text, j, j + Len(sub) - 1) # sub
    ELSE 0

\* the delimiter line of a file: "--- Start of <relativePath> ---"
DelimiterLine(p) ==
    <<"\n", "-", "-", "-", " ", "S", "t", "a", "r", "t", " ", "o", "f", " ">>
    \o relative(workspaceRoot, p) \o <<" ", "-", "-", "-", "\n">>

\* the position of a path in the Selection Set's iteration order
PositionIn(seq, x) == CHOOSE i \in 1..Len(seq) : seq[i] = x

PathNodes(paths) == [i \in 1..Len(paths) |-> FileNode(basename(paths[i]), "None", paths[i], TRUE)]

\* C11: the step in which the compile command writes the document of a non-empty
\* file list: the text is exactly "File Tree:\n", the tree section, "\nFiles:\n" and
\* the files section, with nothing between these four parts, and the text holds the
\* delimiter line of every file of the list
C11_FourParts ==
    [][(compileCommand /\ compiled'.written) =>
          LET files == PathNodes(compiled'.files)
              treeSection == serializeTree(BuildTree(TreeNode(<<>>, FALSE, <<>>), files), <<>>)
              filesSection == Concat([i \in 1..Len(files) |-> FileSection(files[i])])
          IN /\ compiled'.text = FileTreeHeader \o treeSection \o FilesHeader \o filesSection
             /\ \A i \in 1..Len(files) : Contains(compiled'.text, DelimiterLine(files[i].fsPath))]_vars

\* C12: in a written document the delimiters of the compiled files appear in the
\* order of the list handed to the serializer, which is the iteration order of the
\* Selection Set: for f before g, the delimiter of f precedes the delimiter of g
C12_FilesInListOrder ==
    compiled.written =>
        \A i, j \in 1..Len(compiled.files) :
            i < j =>
                /\ IndexOf(compiled.text, DelimiterLine(compiled.files[i])) > 0
                /\ IndexOf(compiled.text, DelimiterLine(compiled.files[i]))
                     < IndexOf(compiled.text, DelimiterLine(compiled.files[j]))
                /\ PositionIn(checkedFiles, compiled.files[i]) < PositionIn(checkedFiles, compiled.files[j])

\* a document was written for b.ts selected before a.ts: neither sorted nor in tree order
C12_Witness ==
    /\ compiled.written
    /\ compiled.files = <<Abs(<<"b", ".", "t", "s">>), Abs(<<"a", ".", "t", "s">>)>>

\* C13: the step in which the compile command serializes a list with a file whose read
\* fails, the output directory being there: the document is written, it holds for the
\* failed file its delimiter line followed by the inline error string, for every other
\* file its delimiter line followed by its content, and these sections are in list order
C13_ReadFailureInline ==
    [][(/\ compileCommand
        /\ \E i \in 1..Len(compiled'.files) : ~ReadOk(compiled'.files[i])
        /\ IsDirPath(dirname(pathJoin(workspaceRoot, config.outputFile)))) =>
          LET files == compiled'.files
              section(q) == IF ReadOk(q) THEN DelimiterLine(q) \o fs.content[q] \o <<"\n">>
                            ELSE DelimiterLine(q) \o <<"E", "r", "r", "o", "r", " ", "r", "e", "a", "d",
                                                       "i", "n", "g", " ", "f", "i", "l", "e", ":", " ">>
              at(i) == IndexOf(compiled'.text, section(files[i]))
          IN /\ compiled'.written
             /\ \A i \in 1..Len(files) : at(i) > 0
             /\ \A i, j \in 1..Len(files) : i < j => at(i) < at(j)]_vars

\* a document was written for two files, the first of which could not be read
C13_Witness ==
    /\ compiled.written
    /\ Len(compiled.files) = 2
    /\ compiled.files[1] \in unreadable
    /\ Contains(compiled.text, DelimiterLine(compiled.files[2]))

\* the messages with which the extension signals that there is nothing to serialize
NothingToSerialize == {"warning:no files selected", "warning:no files after exclusions", "error:empty tree"}

\* C14: whenever the compile command or a serializer has run on an empty file list
\* (no file selected, none left after the exclusions, or an empty list passed to the
\* serializer), it has signalled that there is nothing to serialize and has not
\* written a document
C14_EmptyListNoDocument ==
    (compiled # NoCompile /\ compiled.files = <<>>) =>
        /\ ~compiled.written
        /\ compiled.messages \cap NothingToSerialize # {}

\* C15: whenever the write of the output document has failed, the compile command
\* has not reported that the compilation completed successfully
C15_WriteFailureNotSuccess ==
    "error:write failed" \in compiled.messages => "info:completed" \notin compiled.messages

\* C16: whenever the compile command has serialized at least one file with the
\* default output path .compile-context/file_context.txt, the document has been
\* written and the file is there, its directory created if it was missing
C16_CreatesOutputDirectory ==
    (/\ compiled.by = "compileContext.compileContext"
     /\ compiled.files # <<>>
     /\ config.outputFile = DefaultConfig.outputFile) =>
        /\ compiled.written
        /\ IsDirPath(dirname(pathJoin(workspaceRoot, config.outputFile)))
        /\ IsFilePath(pathJoin(workspaceRoot, config.outputFile))

\* the alphabet of names, punctuation and digits before the letters
Alphabet == <<"_", "-", ".", "0", "1", "2", "3", "4", "5", "6", "7", "8", "9",
              "a", "b", "c", "d", "e", "f", "g", "h", "i", "j", "k", "l", "m",
              "n", "o", "p", "q", "r", "s", "t", "u", "v", "w", "x", "y", "z">>

AlphabetIndex(c) == CHOOSE i \in 1..Len(Alphabet) : Alphabet[i] = c

\* a is before b, or equal to b, in alphabetical order without regard to case
AlphabeticalLeq(a, b) ==
    LET la == toLowerCase(a)
        lb == toLowerCase(b)
    IN \/ la = lb
       \/ \E k \in 1..Len(lb) :
             /\ \A i \in 1..(k - 1) : i <= Len(la) /\ la[i] = lb[i]
             /\ (k > Len(la) \/ AlphabetIndex(la[k]) < AlphabetIndex(lb[k]))

\* the listing of a directory puts every directory before every file and, within
\* each group, the names in alphabetical order without regard to case
Ordered(listing) ==
    \A i, j \in 1..Len(listing) :
        i < j =>
            /\ isDirectory(listing[i]) \/ ~isDirectory(listing[j])
            /\ isDirectory(listing[i]) = isDirectory(listing[j]) =>
                   AlphabeticalLeq(basename(listing[i].fsPath), basename(listing[j].fsPath))

\* C17: every step in which the view lists a directory returns an ordered sequence
\* (directories before files, names in case-insensitive alphabetical order within
\* each group) without repeated entries, and the nodes the view then holds for that
\* directory are exactly that sequence, whatever it held from earlier listings
C17_ListingTotalOrder ==
    [][\A d \in DOMAIN fs.entries :
          getChildren(d) =>
              /\ Ordered(ListChildren(d))
              /\ Cardinality(Range(ListChildren(d))) = Len(ListChildren(d))
              /\ {n \in view' : dirname(n.fsPath) = d} = Range(ListChildren(d))]_vars

\* the view holds the listing of a root with names in both cases: alpha/ before Zeta/,
\* then a.ts before B.md before b.ts
C17_Witness ==
    /\ Len(ListChildren(workspaceRoot)) = 5
    /\ \A n \in Range(ListChildren(workspaceRoot)) : n \in view
    /\ ListChildren(workspaceRoot)[1].fsPath = Abs(<<"a", "l", "p", "h", "a">>)
    /\ ListChildren(workspaceRoot)[4].fsPath = Abs(<<"B", ".", "m", "d">>)

\* C18: a step that lists a directory, compiles, or in which a selected file is
\* deleted on disk leaves the Selection Set as it was: a path whose file is gone
\* stays a member
C18_NeverPruned ==
    [][(\/ compileCommand
        \/ \E d \in DOMAIN fs.entries : getChildren(d)
        \/ \E q \in Selected : unlink(q)) => checkedFiles' = checkedFiles]_vars

\* README.md was selected with src/a.ts and deleted on disk; the compile that followed
\* wrote a document for src/a.ts alone, and README.md is still a member
C18_Witness ==
    /\ checkedFiles = <<ReadmeFile, SrcAFile>>
    /\ ~StatOk(ReadmeFile)
    /\ compiled.written
    /\ compiled.files = <<SrcAFile>>

AfterDelimiter(text, p) ==
    SubSeq(text, IndexOf(text, DelimiterLine(p)) + Len(DelimiterLine(p)), Len(text))

\* C20: for every list of selected files that generateContext is applied to, it
\* writes the output file, and the text written holds "File Tree:", "Files:" and
\* the relative path of every file of the list in a delimiter line; the delimiter
\* of a file named __init__.py is followed by nothing of that file: the text ends
\* there or the next delimiter starts there
C20_GenerateContextOutput ==
    compiled.by \in {"generateContext", "generateContextTree"} =>
        /\ compiled.written
        /\ IsFilePath(pathJoin(workspaceRoot, config.outputFile))
        /\ fs.content[pathJoin(workspaceRoot, config.outputFile)] = compiled.text
        /\ Contains(compiled.text, <<"F", "i", "l", "e", " ", "T", "r", "e", "e", ":">>)
        /\ Contains(compiled.text, <<"F", "i", "l", "e", "s", ":">>)
        /\ \A i \in 1..Len(compiled.files) :
              /\ Contains(compiled.text, relative(workspaceRoot, compiled.files[i]))
              /\ Contains(compiled.text, DelimiterLine(compiled.files[i]))
              /\ basename(compiled.files[i]) = InitPy =>
                    \/ AfterDelimiter(compiled.text, compiled.files[i]) = <<>>
                    \/ StartsWith(AfterDelimiter(compiled.text, compiled.files[i]), StartOf)

\* generateContext was applied to a list that holds testFile.js and both __init__.py
\* files, the one with content among them, and wrote the output file
C20_Witness ==
    /\ compiled.by = "generateContext"
    /\ compiled.written
    /\ Range(compiled.files) = TestFiles
    /\ Contains(compiled.text, <<"H", "e", "l", "l", "o", " ", "W", "o", "r", "l", "d">>)
    /\ ~Contains(compiled.text, <<"Z">>)

\* C21: the step in which the toggle handler runs its file branch on a node of the
\* view flips the membership of the node's path as the Selection Set holds it in
\* that step: the path is a member afterwards exactly when it was not before,
\* whatever the checked flag the node was listed with
C21_FileToggleByMembership ==
    [][\A n \in FileNodes :
          toggleCheckbox(n) => (n.fsPath \in Selected' <=> n.fsPath \notin Selected)]_vars

\* the tree section of a written document: what lies between "File Tree:\n" and the
\* blank line before "Files:"
WrittenTree == SubSeq(compiled.text, Len(FileTreeHeader) + 1, IndexOf(compiled.text, <<"\n">> \o FilesHeader) - 1)

\* the lines of a tree section, without their line ends
TreeLines(tree) == LET parts == Split(tree, "\n") IN SubSeq(parts, 1, Len(parts) - 1)

\* the column at which the connector of a line starts
ConnectorAt(line) ==
    CHOOSE i \in 1..Len(line) :
        /\ line[i] \in {BoxVR, BoxUR}
        /\ \A j \in 1..(i - 1) : line[j] \notin {BoxVR, BoxUR}

\* a line of depth d has d indentation groups of four characters before its connector
LineDepth(line) == (ConnectorAt(line) - 1) \div 4

LineName(line) == SubSeq(line, ConnectorAt(line) + 4, Len(line))

\* the line of the ancestor at depth k of line i: the last line of depth k before it
AncestorLine(lines, i, k) ==
    CHOOSE j \in 1..(i - 1) :
        /\ LineDepth(lines[j]) = k
        /\ \A m \in (j + 1)..(i - 1) : LineDepth(lines[m]) # k

\* the relative path that line i stands for: the names of its ancestors and its own
LinePath(lines, i) ==
    LET d == LineDepth(lines[i])
    IN Concat([k \in 1..d |-> LineName(lines[AncestorLine(lines, i, k - 1)])]) \o LineName(lines[i])

\* line i is the last of its siblings: no later line of its depth before its parent's subtree ends
IsLastSibling(lines, i) ==
    ~\E j \in (i + 1)..Len(lines) :
        /\ LineDepth(lines[j]) = LineDepth(lines[i])
        /\ \A m \in (i + 1)..(j - 1) : LineDepth(lines[m]) > LineDepth(lines[i])

\* the ancestor directories of a relative path, each with its trailing separator
AncestorDirs(rel) == {SubSeq(rel, 1, i) : i \in SepPositions(rel, pathSep)}

\* C22: in every document compileContext writes, each file of the list stands on
\* exactly one line of the tree section, under its own name without a trailing "/",
\* and each of its ancestor directories stands on exactly one line with a trailing
\* "/"; also when the list holds a path that is a proper prefix of the file's path
C22_EveryFileOneLine ==
    (compiled.by = "compileContext" /\ compiled.written) =>
        LET lines == TreeLines(WrittenTree)
            count(q) == Cardinality({i \in 1..Len(lines) : LinePath(lines, i) = q})
        IN \A k \in 1..Len(compiled.files) :
              IsFilePath(compiled.files[k]) =>
                  /\ count(relative(workspaceRoot, compiled.files[k])) = 1
                  /\ \A anc \in AncestorDirs(relative(workspaceRoot, compiled.files[k])) : count(anc) = 1

\* what a line of the tree section can stand for: a path of the list or an ancestor
\* of one, as a file or as a directory
TreePathsOf(files) ==
    UNION {LET rel == relative(workspaceRoot, files[k])
           IN {rel, rel \o <<pathSep>>} \cup AncestorDirs(rel) : k \in 1..Len(files)}

\* C23: every line of the tree section of a written document is prefix, connector,
\* name: the connector is the corner when the line is the last of its siblings and
\* the tee otherwise, and the prefix of a line at depth d has, for each of its d
\* ancestors from the top down, four spaces when that ancestor was the last of its
\* siblings and the vertical bar with three spaces otherwise
C23_ConnectorsAndPrefixes ==
    (compiled.by = "compileContext" /\ compiled.written) =>
        LET lines == TreeLines(WrittenTree)
        IN \A i \in 1..Len(lines) :
              LET line == lines[i]
                  d == LineDepth(line)
              IN /\ ConnectorAt(line) = 4 * d + 1
                 /\ Len(LineName(line)) > 0
                 /\ SubSeq(line, 4 * d + 1, 4 * d + 4) =
                       (IF IsLastSibling(lines, i) THEN <<BoxUR, BoxH, BoxH, " ">> ELSE <<BoxVR, BoxH, BoxH, " ">>)
                 /\ \A k \in 0..(d - 1) :
                       /\ \E j \in 1..(i - 1) : LineDepth(lines[j]) = k
                       /\ SubSeq(line, 4 * k + 1, 4 * k + 4) =
                             (IF IsLastSibling(lines, AncestorLine(lines, i, k))
                              THEN <<" ", " ", " ", " ">> ELSE <<BoxV, " ", " ", " ">>)
                 /\ LinePath(lines, i) \in TreePathsOf(compiled.files)
                 /\ Cardinality(SepPositions(LinePath(lines, i), pathSep) \ {Len(LinePath(lines, i))}) = d

\* a document for a/b/c.ts and a/d.ts: the line of c.ts has four spaces under a/,
\* the last of its siblings, and the bar under b/, which d.ts follows
C23_Witness ==
    /\ compiled.by = "compileContext"
    /\ compiled.written
    /\ Contains(compiled.text, <<"\n", " ", " ", " ", " ", BoxV, " ", " ", " ", BoxUR, BoxH, BoxH, " ", "c", ".", "t", "s", "\n">>)
    /\ Contains(compiled.text, <<"\n", " ", " ", " ", " ", BoxUR, BoxH, BoxH, " ", "d", ".", "t", "s", "\n">>)

\* the orders in which a list can be handed over
Orders(list) ==
    {q \in Selections(Range(list), Len(list)) : Len(q) = Len(list) /\ DuplicateFree(q)}

\* the tree section compileContext builds from a list of paths
TreeSectionOf(paths) == serializeTree(BuildTree(TreeNode(<<>>, FALSE, <<>>), PathNodes(paths)), <<>>)

\* C24: the tree section of a written document of files is the tree section that
\* compileContext builds from every other order of the same list, also when two
\* sibling names differ only in case
C24_OrderIndependentTree ==
    (/\ compiled.by = "compileContext"
     /\ compiled.written
     /\ \A k \in 1..Len(compiled.files) : IsFilePath(compiled.files[k])) =>
        \A q \in Orders(compiled.files) : TreeSectionOf(q) = WrittenTree

\* the exclusion policy, on a path relative to the root: the base name is in
\* excludeFiles, the path is an excludePaths entry or lies under one, or
\* excludeHidden is set and a segment of the path begins with "."
IsExcluded(rel) ==
    LET segments == Split(rel, "/")
    IN \/ \E i \in 1..Len(config.excludeFiles) : config.excludeFiles[i] = segments[Len(segments)]
       \/ \E i \in 1..Len(config.excludePaths) :
             rel = config.excludePaths[i] \/ StartsWith(rel, config.excludePaths[i] \o <<"/">>)
       \/ config.excludeHidden /\ \E k \in 1..Len(segments) : Len(segments[k]) > 0 /\ segments[k][1] = "."

\* C25: once the compile command has run, no selected file that the exclusion
\* policy excludes is among the compiled files, and a document that was written
\* has no tree line and no delimiter line for it
C25_NoExcludedFileCompiled ==
    compiled.by = "compileContext.compileContext" =>
        \A q \in Selected :
            IsExcluded(relative(workspaceRoot, q)) =>
                /\ q \notin Range(compiled.files)
                /\ compiled.written =>
                      /\ ~Contains(compiled.text, DelimiterLine(q))
                      /\ \A i \in 1..Len(TreeLines(WrittenTree)) :
                            LinePath(TreeLines(WrittenTree), i) # relative(workspaceRoot, q)

\* C26: no node that the view got from a listing is one that the exclusion policy
\* excludes
C26_NoExcludedEntryListed ==
    \A n \in view : ~IsExcluded(relative(workspaceRoot, n.fsPath))

HiddenFile == Abs(<<"s", "r", "c", "/", ".", "h", "/", "x">>)
LicenseFile == Abs(<<"s", "r", "c", "/", "L", "I", "C", "E", "N", "S", "E">>)

\* a directory that holds a file the exclusion policy does not exclude, all of these
\* selected, and an excluded file that is not selected
HoldsUnselectedExcluded(D) ==
    LET desc == DescendantFiles(D)
        excluded == {f \in desc : IsExcluded(relative(workspaceRoot, f))}
    IN /\ desc \ excluded # {}
       /\ desc \ excluded \subseteq Selected
       /\ excluded \ Selected # {}

\* C27: the walk of a directory toggle collects every file below the directory,
\* the hidden and the excluded ones too, and the toggle leaves all of them selected
\* or none; and a directory node whose files outside the exclusions are all selected
\* while an excluded file below it is not selected shows Partial
C27_WalkIgnoresExclusion ==
    /\ [](\A n \in DirectoryNodes : HoldsUnselectedExcluded(n.fsPath) => getSelectionSymbol(n) = SymPartial)
    /\ [][\A h \in BagToSet(walking) :
             toggleCheckboxWalked(h) =>
                 LET desc == DescendantFiles(h.element.fsPath)
                 IN /\ Range(getAllChildFiles(h.element.fsPath).files) = desc
                    /\ desc \subseteq Selected' \/ desc \cap Selected' = {}]_vars

\* a toggle of src/ added the hidden file with the others, LICENSE was then toggled
\* off: src/ holds a.ts selected and the excluded LICENSE unselected, and shows Partial
C27_Witness ==
    /\ Selected = {Abs(<<"s", "r", "c", "/", "a", ".", "t", "s">>), HiddenFile}
    /\ \E n \in DirectoryNodes :
          /\ n.fsPath = Abs(<<"s", "r", "c">>)
          /\ HoldsUnselectedExcluded(n.fsPath)
          /\ getSelectionSymbol(n) = SymPartial

C29_ToggleFrame ==
    [][/\ \A n \in FileNodes :
             toggleCheckbox(n) => Selected' \ {n.fsPath} = Selected \ {n.fsPath}
       /\ \A n \in DirectoryNodes :
             toggleCheckbox(n) => Selected' = Selected
       /\ \A h \in BagToSet(walking) :
             toggleCheckboxWalked(h) =>
                 \A q \in (Selected' \ Selected) \cup (Selected \ Selected') :
                     q \in DescendantFiles(h.element.fsPath)]_vars

\* src/lib/c.ts was selected and stays selected when the file node of src/a.ts is
\* toggled, which adds src/a.ts
C29_Witness ==
    /\ checkedFiles = <<Abs(<<"s", "r", "c", "/", "l", "i", "b", "/", "c", ".", "t", "s">>),
                        Abs(<<"s", "r", "c", "/", "a", ".", "t", "s">>)>>
    /\ Len(microtasks) > 0
    /\ microtasks[Len(microtasks)].cmd = "toggleCheckbox"
    /\ microtasks[Len(microtasks)].element.fsPath = Abs(<<"s", "r", "c", "/", "a", ".", "t", "s">>)

\* every node a listing returns now shows the given symbol, directories without a
\* file below them left aside
AllListedShow(symbol) ==
    \A d \in DOMAIN fs.entries :
        \A i \in 1..Len(ListChildren(d)) :
            LET n == ListChildren(d)[i]
            IN (isDirectory(n) => DescendantFiles(n.fsPath) # {}) => getSelectionSymbol(n) = symbol

\* C30: the step in which selectAll updates the set leaves every file below the
\* root selected, the hidden and the excluded ones too, and removes no path; the
\* step of deselectAll leaves the set empty, and the handler persists the empty
\* list; whenever every file is selected every listed node shows Checked, and
\* whenever the set is empty every listed node shows Unchecked
C30_SelectAllDeselectAll ==
    /\ []((DOMAIN fs.content \subseteq Selected) => AllListedShow(SymChecked))
    /\ []((checkedFiles = <<>>) =>
             \A d \in DOMAIN fs.entries : \A i \in 1..Len(ListChildren(d)) :
                 getSelectionSymbol(ListChildren(d)[i]) = SymUnchecked)
    /\ [][/\ \A h \in BagToSet(walking) :
                selectAllWalked(h) => (DOMAIN fs.content \subseteq Selected' /\ Selected \subseteq Selected')
          /\ deselectAll => checkedFiles' = <<>>
          /\ (persist /\ Head(microtasks).cmd = "deselectAll") => globalState' = <<>>]_vars

\* LICENSE was selected alone; selectAll has added a.ts and the hidden file behind
\* it and has not persisted yet
C30_Witness ==
    /\ checkedFiles = <<LicenseFile, Abs(<<"s", "r", "c", "/", "a", ".", "t", "s">>), HiddenFile>>
    /\ Len(microtasks) = 1
    /\ microtasks[1].cmd = "selectAll"
    /\ globalState = <<LicenseFile>>

====
